---- MODULE Spec2Model ----
(***************************************************************************)
(* The release-fetching installer (src/unnamed/part_001) as a state        *)
(* machine: one host, one package directory, installer runs one after the  *)
(* other.  Every call the script makes to the host (fs, https, execSync,   *)
(* process.exit) is one step; the host chooses each call's outcome.        *)
(* The launchers (src/npm/bin/cli.js, src/unnamed/part_000) are processes  *)
(* of their own, with a specification of their own (LauncherSpec).         *)
(* Installer processes that overlap in time share os.tmpdir(): ExtractSpec *)
(* runs extractTarGz / extractZip in two of them at once.                  *)
(*                                                                         *)
(* Strings the script only compares piecewise are kept as token sequences: *)
(* a target "x86_64-pc-windows-msvc" is <<"x86_64","pc","windows","msvc">>,*)
(* a URL is [scheme, rest].                                                *)
(***************************************************************************)
EXTENDS Integers, Sequences, FiniteSets, TLC

\* ------------------------------------------------------------- bounds
\* Longest chain of redirects the modelled server answers with.
MaxRedirects == 2
\* Most 'data' events of one response body.
MaxChunks == 1
\* Installer runs on the same package directory.
MaxRuns == 2
\* Ticks of the millisecond clock while two extractions overlap.
MaxClock == 1
\* Events delivered after download's promise settled, before install goes on.
MaxLate == 1

\* ---------------------------------------------------- program constants
REPO == "mstuart/ai-statusline"
BINARY_NAME == "ai-statusline"
VERSION == "PACKAGE.version"
Mode0755 == 493

\* ------------------------------------------------------------ the host
Platforms == {"darwin", "linux", "win32", "freebsd"}
Archs == {"x64", "arm64", "ia32"}
\* Modes a file can carry before the script's own chmod: 0644, 0755.
FileModes == {420, 493}
\* Mode of a file created by fs.writeFileSync (0666 masked by umask 022).
CreatedModes == {420}
StatusCodes == {200, 302, 404}
NoFile == [content |-> "none", mode |-> 0]
NoUrl == [scheme |-> "", rest |-> <<>>]
\* Location header values a server may send: the URL the installer first
\* asked for (self, an https URL: a redirect back to it), an http URL, and a
\* relative reference, which is no absolute URL.
Locations(self) ==
  { self,
    [scheme |-> "http", rest |-> <<"mirror.example", "asset">>],
    [scheme |-> "", rest |-> <<"/asset">>] }

\* What a server answers a GET with.  Only a 3xx response carries a Location
\* header here; one may also lack it.
Responses(self) ==
  { r \in [status : StatusCodes, location : Locations(self) \cup {NoUrl}] :
      r.location # NoUrl => (r.status >= 300 /\ r.status < 400) }

\* The two launcher scripts, by the name of the binary they start.
Launchers == {"claudeline", "claude-status"}
\* result.status of a child that produced none (null).
NoStatus == -1
SpawnErrors == {"ENOENT", "EACCES"}
ChildStatuses == {0, 1, 2, 255}
Signals == {"SIGTERM", "SIGKILL"}
NoResult == [error |-> "", status |-> NoStatus, signal |-> ""]
\* What spawnSync returns: the launch failed (error, no status), the child
\* exited (status), or a signal ended it (no status).
SpawnResults ==
  {[error |-> e, status |-> NoStatus, signal |-> ""] : e \in SpawnErrors}
    \cup {[error |-> "", status |-> n, signal |-> ""] : n \in ChildStatuses}
    \cup {[error |-> "", status |-> NoStatus, signal |-> sg] : sg \in Signals}

\* ------------------------------------------------------ pure functions
targets ==
  ( <<"darwin", "x64">>   :> <<"x86_64", "apple", "darwin">> ) @@
  ( <<"darwin", "arm64">> :> <<"aarch64", "apple", "darwin">> ) @@
  ( <<"linux", "x64">>    :> <<"x86_64", "unknown", "linux", "gnu">> ) @@
  ( <<"linux", "arm64">>  :> <<"aarch64", "unknown", "linux", "gnu">> ) @@
  ( <<"win32", "x64">>    :> <<"x86_64", "pc", "windows", "msvc">> )

NoTarget == <<>>

\* Mutant: the key built as arch-platform.
getPlatformTarget_ArchFirst(p, a) ==
  IF <<a, p>> \in DOMAIN targets THEN targets[<<a, p>>] ELSE NoTarget

\* targets[key], undefined (falsy) for a key the table lacks.
getPlatformTarget(p, a) ==
  IF <<p, a>> \in DOMAIN targets THEN targets[<<p, a>>] ELSE NoTarget

\* target.includes(word)
includes(target, word) == \E i \in DOMAIN target : target[i] = word

archiveOf(target) == IF includes(target, "windows") THEN "zip" ELSE "tar.gz"

getDownloadUrl(target) ==
  [scheme |-> "https",
   rest |-> <<"github.com", REPO, "releases", "download", VERSION,
              BINARY_NAME, VERSION, target, archiveOf(target)>>]

\* binPath's file name.
binName(p) == IF p = "win32" THEN <<BINARY_NAME, "exe">> ELSE <<BINARY_NAME>>

\* redirectUrl.startsWith("https") ? https : http
clientFor(url) == IF url.scheme = "https" THEN "https" ELSE "http"

\* client.get(url, ...) throws synchronously unless url is an absolute URL of
\* the client's own protocol.
getThrows(client, url) == url.scheme # client

stub(p) == IF p = "win32" THEN "stub-cmd" ELSE "stub-sh"

\* The launcher's bin: <name>-bin, with .exe on win32.
launcherBin(name, p) ==
  IF p = "win32" THEN <<name, "bin", "exe">> ELSE <<name, "bin">>

\* Mutant: a child without a status is reported as success.
exitStatus_DefaultsToZero(r) ==
  IF r.error # "" THEN 1 ELSE IF r.status = NoStatus THEN 0 ELSE r.status

\* The status the launcher ends with: 1 on result.error, else
\* result.status ?? 1.
exitStatus(r) ==
  IF r.error # "" THEN 1 ELSE IF r.status = NoStatus THEN 1 ELSE r.status

\* What the launcher prints on result.error.
errorMessage(name, r) ==
  IF r.error = "ENOENT"
    THEN <<name, "binary not found. Try reinstalling: npm install -g", name>>
    ELSE <<"result.error.message", r.error>>

\* ---------------------------------------------------------------- state
VARIABLES
  platform,      \* os.platform()
  arch,          \* os.arch()
  dest,          \* the file at binPath: [content, mode], or NoFile
  binDirExists,  \* whether the directory binDir exists
  tmpFiles,      \* the files in os.tmpdir() this installer has left there
  now,           \* what Date.now() reads in this process
  run,           \* index of the current installer process
  pc,            \* where the process is
  exitCode,      \* -1 while running, else the process's exit status
  outcome,       \* how the run ended, "" while running
  log,           \* the host calls of this run, in order
  reqUrl,        \* URL of the request in flight
  hops,          \* responses received so far in this run
  chunks,        \* download's chunks array
  data,          \* what download resolved with
  promise,       \* download's promise: "pending", "resolved", "rejected"
  late,          \* events delivered since it settled
  tmpFile,       \* extract*'s tmpFile
  toolFailed,    \* execSync threw; pending through the finally block
  error,         \* the error the catch block received
  fs0,           \* <<dest, binDirExists, tmpFiles>> when the run started
  launcherName,  \* which launcher script runs, "" when none does
  lpc,           \* where the launcher is
  spawned,       \* the file spawnSync was called with
  result,        \* what spawnSync returned
  message,       \* what the launcher printed with console.error
  launcherExit,  \* the launcher's exit status, -1 while it runs
  callPc,        \* overlapping extract* calls: where each one is
  callTmp,       \* ... its tmpFile
  callFailed,    \* ... whether its execSync threw (pending in the finally)
  callDir        \* os.tmpdir() as those calls see it: [name, complete, by]

vars == <<platform, arch, dest, binDirExists, tmpFiles, now, run, pc, exitCode,
          outcome, log, reqUrl, hops, chunks, data, promise, late, tmpFile,
          toolFailed, error,
          fs0, launcherName, lpc, spawned, result, message, launcherExit,
          callPc, callTmp, callFailed, callDir>>

launcher == <<launcherName, lpc, spawned, result, message, launcherExit>>
calls == <<callPc, callTmp, callFailed, callDir>>

host == <<platform, arch>>
fsys == <<dest, binDirExists, tmpFiles>>
net == <<reqUrl, hops, chunks, data>>
settlement == <<promise, late>>

NoError == [kind |-> "", code |-> 0, phase |-> ""]
NoTmp == <<>>

Ev(op, res, arg) == [op |-> op, res |-> res, arg |-> arg]

target == getPlatformTarget(platform, arch)

\* No launcher runs.
LauncherIdle ==
  /\ launcherName = ""
  /\ lpc = "idle"
  /\ spawned = <<>>
  /\ result = NoResult
  /\ message = <<>>
  /\ launcherExit = -1

\* The installer processes that overlap in ExtractSpec.
Invocations == {1, 2}

\* No overlapping extract* calls.
NoCalls ==
  /\ callPc = [p \in Invocations |-> "idle"]
  /\ callTmp = [p \in Invocations |-> NoTmp]
  /\ callFailed = [p \in Invocations |-> FALSE]
  /\ callDir = {}

Init ==
  /\ LauncherIdle
  /\ NoCalls
  /\ platform \in Platforms
  /\ arch \in Archs
  /\ dest \in {NoFile} \cup [content : {"existing"}, mode : FileModes]
  /\ binDirExists \in BOOLEAN
  /\ (dest # NoFile => binDirExists)
  /\ tmpFiles = {}
  /\ now = 0
  /\ run = 1
  /\ pc = "start"
  /\ exitCode = -1
  /\ outcome = ""
  /\ log = <<>>
  /\ reqUrl = NoUrl
  /\ hops = 0
  /\ chunks = <<>>
  /\ data = <<>>
  /\ promise = "pending"
  /\ late = 0
  /\ tmpFile = NoTmp
  /\ toolFailed = FALSE
  /\ error = NoError
  /\ fs0 = <<dest, binDirExists, tmpFiles>>

\* The process ends with status code.
Exit(code, how) ==
  /\ pc' = "exited"
  /\ exitCode' = code
  /\ outcome' = how

\* Mutant: no try/catch; the exception leaves install().
Caught_Rethrows(kind, code, phase) ==
  /\ pc' = "exited"
  /\ exitCode' = 1
  /\ outcome' = "Failed"
  /\ error' = [kind |-> kind, code |-> code, phase |-> phase]

\* An exception (or a rejection of download) inside the try block: control
\* goes to the catch block with the error.
Caught(kind, code, phase) ==
  /\ pc' = "catch"
  /\ error' = [kind |-> kind, code |-> code, phase |-> phase]
  /\ UNCHANGED <<exitCode, outcome>>

\* An exception inside the catch block: install() rejects, and the handler of
\* install().catch ends the process.
Rejected == Exit(1, "Failed")

\* Mutant: the process.exit(1) is missing; install goes on with no target.
Start_FallsThrough ==
  /\ pc = "start"
  /\ pc' = "check"
  /\ UNCHANGED <<exitCode, outcome>>
  /\ UNCHANGED <<launcher, calls, settlement, host, fsys, now, run, log, net, tmpFile, toolFailed, error, fs0>>

\* getPlatformTarget(): process.exit(1) for a key without a target.
Start ==
  /\ pc = "start"
  /\ IF target = NoTarget
       THEN Exit(1, "Unsupported")
       ELSE pc' = "check" /\ UNCHANGED <<exitCode, outcome>>
  /\ UNCHANGED <<launcher, calls, settlement, host, fsys, now, run, log, net, tmpFile, toolFailed, error, fs0>>

\* Mutant: the early return is missing; an installed binary is fetched again.
CheckExisting_NoReturn ==
  /\ pc = "check"
  /\ log' = log \o <<Ev("existsSync", IF dest # NoFile THEN "true" ELSE "false",
                        binName(platform)),
                     Ev("get", "https", getDownloadUrl(target))>>
  /\ reqUrl' = getDownloadUrl(target)
  /\ pc' = "await"
  /\ UNCHANGED <<exitCode, outcome>>
  /\ UNCHANGED <<launcher, calls, settlement, host, fsys, now, run, hops, chunks, data, tmpFile, toolFailed,
                 error, fs0>>

\* Mutant: an installed file is made executable before the early return.
CheckExisting_FixesMode ==
  /\ pc = "check"
  /\ IF dest # NoFile
       THEN /\ log' = Append(log, Ev("existsSync", "true", binName(platform)))
            /\ dest' = [dest EXCEPT !.mode = Mode0755]
            /\ Exit(0, "AlreadyInstalled")
            /\ UNCHANGED reqUrl
       ELSE /\ log' = log \o <<Ev("existsSync", "false", binName(platform)),
                              Ev("get", "https", getDownloadUrl(target))>>
            /\ reqUrl' = getDownloadUrl(target)
            /\ pc' = "await"
            /\ UNCHANGED <<dest, exitCode, outcome>>
  /\ UNCHANGED <<launcher, calls, settlement, host, binDirExists, tmpFiles, now, run, hops, chunks,
                 data, tmpFile, toolFailed, error, fs0>>

\* Mutant: a stub at binPath does not count as installed.
CheckExisting_ReplacesStub ==
  /\ pc = "check"
  /\ IF dest # NoFile /\ dest.content # stub(platform)
       THEN /\ log' = Append(log, Ev("existsSync", "true", binName(platform)))
            /\ Exit(0, "AlreadyInstalled")
            /\ UNCHANGED reqUrl
       ELSE /\ log' = log \o <<Ev("existsSync", "false", binName(platform)),
                              Ev("get", "https", getDownloadUrl(target))>>
            /\ reqUrl' = getDownloadUrl(target)
            /\ pc' = "await"
            /\ UNCHANGED <<exitCode, outcome>>
  /\ UNCHANGED <<launcher, calls, settlement, host, fsys, now, run, hops, chunks, data, tmpFile, toolFailed,
                 error, fs0>>

\* install(), from the existence check to the first https.get of download.
CheckExisting ==
  /\ pc = "check"
  /\ IF dest # NoFile
       THEN /\ log' = Append(log, Ev("existsSync", "true", binName(platform)))
            /\ Exit(0, "AlreadyInstalled")
            /\ UNCHANGED reqUrl
       ELSE /\ log' = log \o <<Ev("existsSync", "false", binName(platform)),
                              Ev("get", "https", getDownloadUrl(target))>>
            /\ reqUrl' = getDownloadUrl(target)
            /\ pc' = "await"
            /\ UNCHANGED <<exitCode, outcome>>
  /\ UNCHANGED <<launcher, calls, settlement, host, fsys, now, run, hops, chunks, data, tmpFile, toolFailed,
                 error, fs0>>

\* Mutant: a promise that takes the last call to resolve or reject.
settle_LastCallWins(state, to) == to

\* resolve(...) and reject(...) settle a pending promise and are without
\* effect on a settled one.
settle(state, to) == IF state = "pending" THEN to ELSE state

\* reject(err): the rejection's reason is the error install's catch receives.
Reject(kind, code) ==
  /\ promise' = settle(promise, "rejected")
  /\ error' = IF promise' # promise
                THEN [kind |-> kind, code |-> code, phase |-> "download"]
                ELSE error
  /\ UNCHANGED data

\* resolve(Buffer.concat(chunks))
Resolve ==
  /\ promise' = settle(promise, "resolved")
  /\ data' = IF promise' # promise THEN chunks ELSE data
  /\ UNCHANGED error

\* A 200 response has been handed to the handler: its 'data', 'end' and
\* 'error' listeners are attached.
Listening ==
  \E i \in DOMAIN log :
    log[i].op = "response" /\ log[i].res = "final" /\ log[i].arg[1] = 200

\* The response's 'end' (or 'error') event has been delivered.
Emitted(op) == \E i \in DOMAIN log : log[i].op = op

\* An event delivered after the promise settled, while install's
\* continuation is still queued.
Late == pc = "settled" /\ late < MaxLate

\* Mutant: a request error is answered by asking again.
RequestError_Retries ==
  /\ pc = "await"
  /\ log' = log \o <<Ev("requestError", "", reqUrl),
                     Ev("get", clientFor(reqUrl), reqUrl)>>
  /\ UNCHANGED <<pc, exitCode, outcome, error>>
  /\ UNCHANGED <<launcher, calls, settlement, host, fsys, now, run, net, tmpFile, toolFailed, fs0>>

\* A request's 'error' event: reject.
RequestError ==
  /\ pc = "await" \/ Late
  /\ log' = IF pc = "await" THEN Append(log, Ev("requestError", "", reqUrl)) ELSE log
  /\ Reject("request", 0)
  /\ late' = IF pc = "settled" THEN late + 1 ELSE late
  /\ pc' = "settled"
  /\ UNCHANGED <<exitCode, outcome>>
  /\ UNCHANGED <<launcher, calls, host, fsys, now, run, reqUrl, hops, chunks, tmpFile,
                 toolFailed, fs0>>

isRedirect(status, loc) == status >= 300 /\ status < 400 /\ loc # NoUrl

\* Mutant: a redirect is answered by fetching the request's own URL again.
Response_RefetchesSame(status, loc) ==
  /\ pc = "await"
  /\ (isRedirect(status, loc) => hops < MaxRedirects)
  /\ hops' = hops + 1
  /\ IF isRedirect(status, loc)
       THEN /\ log' = log \o <<Ev("response", "redirect", <<status, loc>>),
                              Ev("get", clientFor(reqUrl), reqUrl)>>
            /\ UNCHANGED <<reqUrl, pc, exitCode, outcome, error, promise, data>>
       ELSE IF status # 200
              THEN /\ log' = Append(log, Ev("response", "final", <<status, loc>>))
                   /\ Reject("status", status)
                   /\ pc' = "settled"
                   /\ UNCHANGED <<reqUrl, exitCode, outcome>>
              ELSE /\ log' = Append(log, Ev("response", "final", <<status, loc>>))
                   /\ pc' = "body"
                   /\ UNCHANGED <<reqUrl, exitCode, outcome, error, promise, data>>
  /\ UNCHANGED <<launcher, calls, host, fsys, now, run, chunks, late, tmpFile, toolFailed, fs0>>

\* Mutant: the status check is missing; any terminal response is read as
\* the archive.
Response_AcceptsAnyStatus(status, loc) ==
  /\ pc = "await"
  /\ (isRedirect(status, loc) => hops < MaxRedirects)
  /\ hops' = hops + 1
  /\ IF isRedirect(status, loc)
       THEN IF getThrows(clientFor(loc), loc)
              THEN /\ log' = Append(log, Ev("response", "redirect", <<status, loc>>))
                   /\ Exit(1, "Crashed")
                   /\ UNCHANGED <<reqUrl, error>>
              ELSE /\ log' = log \o <<Ev("response", "redirect", <<status, loc>>),
                                     Ev("get", clientFor(loc), loc)>>
                   /\ reqUrl' = loc
                   /\ UNCHANGED <<pc, exitCode, outcome, error>>
       ELSE /\ log' = Append(log, Ev("response", "final", <<status, loc>>))
            /\ pc' = "body"
            /\ UNCHANGED <<reqUrl, exitCode, outcome, error>>
  /\ UNCHANGED <<launcher, calls, settlement, host, fsys, now, run, chunks, data, tmpFile, toolFailed, fs0>>

\* download's handler, called with a response.
Response(status, loc) ==
  /\ pc = "await"
  /\ (isRedirect(status, loc) => hops < MaxRedirects)
  /\ hops' = hops + 1
  /\ IF isRedirect(status, loc)
       THEN IF getThrows(clientFor(loc), loc)
              THEN \* thrown inside the 'response' listener: uncaught
                   /\ log' = Append(log, Ev("response", "redirect", <<status, loc>>))
                   /\ Exit(1, "Crashed")
                   /\ UNCHANGED <<reqUrl, error, promise, data>>
              ELSE /\ log' = log \o <<Ev("response", "redirect", <<status, loc>>),
                                     Ev("get", clientFor(loc), loc)>>
                   /\ reqUrl' = loc
                   /\ UNCHANGED <<pc, exitCode, outcome, error, promise, data>>
       ELSE IF status # 200
              THEN /\ log' = Append(log, Ev("response", "final", <<status, loc>>))
                   /\ Reject("status", status)
                   /\ pc' = "settled"
                   /\ UNCHANGED <<reqUrl, exitCode, outcome>>
              ELSE /\ log' = Append(log, Ev("response", "final", <<status, loc>>))
                   /\ pc' = "body"
                   /\ UNCHANGED <<reqUrl, exitCode, outcome, error, promise, data>>
  /\ UNCHANGED <<launcher, calls, host, fsys, now, run, chunks, late, tmpFile, toolFailed, fs0>>

\* response 'data': chunks.push(chunk).  A chunk is named by the response it
\* belongs to and its place in that body.
BodyData ==
  /\ pc = "body" \/ (Late /\ Listening /\ ~Emitted("end"))
  /\ Len(chunks) < MaxChunks
  /\ chunks' = Append(chunks, <<hops, Len(chunks) + 1>>)
  /\ late' = IF pc = "settled" THEN late + 1 ELSE late
  /\ UNCHANGED <<launcher, calls, host, fsys, now, run, pc, exitCode, outcome, log, reqUrl,
                 hops, data, promise, tmpFile, toolFailed, error, fs0>>

\* response 'end': resolve(Buffer.concat(chunks)).
BodyEnd ==
  /\ pc = "body" \/ (Late /\ Listening /\ ~Emitted("end"))
  /\ log' = IF pc = "body" THEN Append(log, Ev("end", "", <<hops>>)) ELSE log
  /\ Resolve
  /\ late' = IF pc = "settled" THEN late + 1 ELSE late
  /\ pc' = "settled"
  /\ UNCHANGED <<launcher, calls, host, fsys, now, run, exitCode, outcome, reqUrl, hops,
                 chunks, tmpFile, toolFailed, fs0>>

\* response 'error': reject.
BodyError ==
  /\ pc = "body" \/ (Late /\ Listening /\ ~Emitted("responseError"))
  /\ log' = IF pc = "body" THEN Append(log, Ev("responseError", "", <<hops>>)) ELSE log
  /\ Reject("response", 0)
  /\ late' = IF pc = "settled" THEN late + 1 ELSE late
  /\ pc' = "settled"
  /\ UNCHANGED <<exitCode, outcome>>
  /\ UNCHANGED <<launcher, calls, host, fsys, now, run, reqUrl, hops, chunks, tmpFile,
                 toolFailed, fs0>>

\* install's await: it goes on once the promise has settled, with the value
\* (the console.log of the size comes next) or into the catch block with the
\* reason.
AwaitDownload ==
  /\ pc = "settled"
  /\ late' = 0
  /\ IF promise = "resolved"
       THEN pc' = "downloaded" /\ UNCHANGED <<exitCode, outcome, error>>
       ELSE Caught(error.kind, error.code, "download")
  /\ UNCHANGED <<launcher, calls, host, fsys, now, run, log, net, promise, tmpFile,
                 toolFailed, fs0>>

\* console.log of the downloaded size: download has resolved.
LogDownloaded ==
  /\ pc = "downloaded"
  /\ pc' = "mkdir"
  /\ UNCHANGED <<launcher, calls, settlement, host, fsys, now, run, exitCode, outcome, log, net, tmpFile,
                 toolFailed, error, fs0>>

\* fs.mkdirSync(binDir, { recursive: true }) of the try block.
Mkdir(ok) ==
  /\ pc = "mkdir"
  /\ log' = Append(log, Ev("mkdirSync", IF ok THEN "ok" ELSE "throws", <<"try">>))
  /\ IF ok
       THEN /\ binDirExists' = TRUE
            /\ pc' = "write_tmp"
            /\ UNCHANGED <<exitCode, outcome, error>>
       ELSE /\ Caught("mkdir", 0, "extraction")
            /\ UNCHANGED binDirExists
  /\ UNCHANGED <<launcher, calls, settlement, host, dest, tmpFiles, now, run, net, tmpFile, toolFailed, fs0>>

\* The file written at name replaces any file of that name.
\* complete: whether it holds the whole buffer.
writeFile(files, name, complete) ==
  {f \in files : f.name # name} \cup {[name |-> name, complete |-> complete]}

\* extractZip / extractTarGz up to the try: the name from Date.now(), then
\* fs.writeFileSync(tmpFile, buffer).  res: "ok", "throws" (nothing created)
\* or "partial" (the file was created, the write then threw).
WriteTmp(res) ==
  /\ pc = "write_tmp"
  /\ tmpFile' = <<BINARY_NAME, now, archiveOf(target)>>
  /\ log' = Append(log, Ev("writeFileSync", res, <<"try", tmpFile'>>))
  /\ tmpFiles' = CASE res = "ok" -> writeFile(tmpFiles, tmpFile', TRUE)
                   [] res = "partial" -> writeFile(tmpFiles, tmpFile', FALSE)
                   [] OTHER -> tmpFiles
  /\ IF res = "ok"
       THEN pc' = "exec" /\ UNCHANGED <<exitCode, outcome, error>>
       ELSE Caught("writeTmp", 0, "extraction")
  /\ UNCHANGED <<launcher, calls, settlement, host, dest, binDirExists, now, run, net, toolFailed, fs0>>

\* Mutant: tar whatever the target.
tool_AlwaysTar == "tar"

tool == IF includes(target, "windows") THEN "unzip" ELSE "tar"

\* execSync of tar / unzip into binDir.  ok: the tool exited 0.  wrote: what
\* it left at binPath: "none" (the archive has no entry of that name, or the
\* tool failed before it), "full", or "partial" (the tool failed midway).
Exec(ok, wrote, mode) ==
  /\ pc = "exec"
  /\ wrote \in (IF ok THEN {"none", "full"} ELSE {"none", "partial"})
  /\ (wrote = "none" => mode = Mode0755)
  /\ (wrote = "partial" => mode \in CreatedModes)
  /\ log' = Append(log, Ev("execSync", IF ok THEN "ok" ELSE "throws", <<"try", tool, tmpFile, wrote>>))
  /\ dest' = CASE wrote = "full" -> [content |-> "binary", mode |-> mode]
               [] wrote = "partial" -> [content |-> "partial", mode |-> mode]
               [] OTHER -> dest
  /\ toolFailed' = ~ok
  /\ pc' = "unlink"
  /\ UNCHANGED <<launcher, calls, settlement, host, binDirExists, tmpFiles, now, run, exitCode, outcome, net,
                 tmpFile, error, fs0>>

\* Mutant: a catch-all in place of the finally; the tool's failure is lost.
Unlink_SwallowsToolError(ok) ==
  /\ pc = "unlink"
  /\ log' = Append(log, Ev("unlinkSync", IF ok THEN "ok" ELSE "throws", <<"try", tmpFile>>))
  /\ tmpFiles' = IF ok THEN {f \in tmpFiles : f.name # tmpFile} ELSE tmpFiles
  /\ toolFailed' = FALSE
  /\ pc' = "chmod"
  /\ UNCHANGED <<exitCode, outcome, error>>
  /\ UNCHANGED <<launcher, calls, settlement, host, dest, binDirExists, now, run, net, tmpFile, fs0>>

\* Mutant: the failure of unlinkSync is not swallowed; it leaves the finally
\* block in place of whatever was pending.
Unlink_PropagatesOwnError(ok) ==
  /\ pc = "unlink"
  /\ log' = Append(log, Ev("unlinkSync", IF ok THEN "ok" ELSE "throws", <<"try", tmpFile>>))
  /\ tmpFiles' = IF ok THEN {f \in tmpFiles : f.name # tmpFile} ELSE tmpFiles
  /\ toolFailed' = FALSE
  /\ IF ~ok
       THEN Caught("unlink", 0, "extraction")
       ELSE IF toolFailed
              THEN Caught("tool", 0, "extraction")
              ELSE pc' = "chmod" /\ UNCHANGED <<exitCode, outcome, error>>
  /\ UNCHANGED <<launcher, calls, settlement, host, dest, binDirExists, now, run, net, tmpFile, fs0>>

\* The finally block: fs.unlinkSync(tmpFile), its own failure swallowed; then
\* the pending exception of execSync, if any, goes on to install's catch.
Unlink(ok) ==
  /\ pc = "unlink"
  /\ log' = Append(log, Ev("unlinkSync", IF ok THEN "ok" ELSE "throws", <<"try", tmpFile>>))
  /\ tmpFiles' = IF ok THEN {f \in tmpFiles : f.name # tmpFile} ELSE tmpFiles
  /\ toolFailed' = FALSE
  /\ IF toolFailed
       THEN Caught("tool", 0, "extraction")
       ELSE pc' = "chmod" /\ UNCHANGED <<exitCode, outcome, error>>
  /\ UNCHANGED <<launcher, calls, settlement, host, dest, binDirExists, now, run, net, tmpFile, fs0>>

\* fs.chmodSync(path, 0o755) succeeds only on a file that exists.
chmodMayOk(file) == file # NoFile

\* Mutant: the chmod of the extracted binary is missing.
Chmod_SkipsChmod(ok) ==
  /\ pc = "chmod"
  /\ ok
  /\ Exit(0, "Installed")
  /\ UNCHANGED <<log, dest, error>>
  /\ UNCHANGED <<launcher, calls, settlement, host, binDirExists, tmpFiles, now, run, net, tmpFile, toolFailed, fs0>>

\* "Make executable" and the end of the try block: install returns and the
\* process ends with status 0.
Chmod(ok) ==
  /\ pc = "chmod"
  /\ IF platform # "win32"
       THEN /\ (ok => chmodMayOk(dest))
            /\ log' = Append(log, Ev("chmodSync", IF ok THEN "ok" ELSE "throws", <<"try">>))
            /\ IF ok
                 THEN /\ dest' = [dest EXCEPT !.mode = Mode0755]
                      /\ Exit(0, "Installed")
                      /\ UNCHANGED error
                 ELSE /\ Caught("chmod", 0, "extraction")
                      /\ UNCHANGED dest
       ELSE /\ ok
            /\ Exit(0, "Installed")
            /\ UNCHANGED <<log, dest, error>>
  /\ UNCHANGED <<launcher, calls, settlement, host, binDirExists, tmpFiles, now, run, net, tmpFile, toolFailed, fs0>>

\* The catch block: the warnings, then fs.mkdirSync(binDir, { recursive: true }).
CatchMkdir(ok) ==
  /\ pc = "catch"
  /\ log' = Append(log, Ev("mkdirSync", IF ok THEN "ok" ELSE "throws", <<"catch">>))
  /\ IF ok
       THEN /\ binDirExists' = TRUE
            /\ pc' = "catch_write"
            /\ UNCHANGED <<exitCode, outcome>>
       ELSE /\ Rejected
            /\ UNCHANGED binDirExists
  /\ UNCHANGED <<launcher, calls, settlement, host, dest, tmpFiles, now, run, net, tmpFile, toolFailed, error, fs0>>

\* fs.writeFileSync(binPath, stub).  A file that exists keeps its mode.
CatchWrite(res, mode) ==
  /\ pc = "catch_write"
  /\ mode \in (IF dest = NoFile THEN CreatedModes ELSE {dest.mode})
  /\ log' = Append(log, Ev("writeFileSync", res, <<"catch", binName(platform)>>))
  /\ dest' = CASE res = "ok" -> [content |-> stub(platform), mode |-> mode]
               [] res = "partial" -> [content |-> "stub-partial", mode |-> mode]
               [] OTHER -> dest
  /\ IF res = "ok"
       THEN pc' = "catch_chmod" /\ UNCHANGED <<exitCode, outcome>>
       ELSE Rejected
  /\ UNCHANGED <<launcher, calls, settlement, host, binDirExists, tmpFiles, now, run, net, tmpFile, toolFailed,
                 error, fs0>>

\* The chmod of the stub and the end of the catch block.
CatchChmod(ok) ==
  /\ pc = "catch_chmod"
  /\ IF platform # "win32"
       THEN /\ (ok => chmodMayOk(dest))
            /\ log' = Append(log, Ev("chmodSync", IF ok THEN "ok" ELSE "throws", <<"catch">>))
            /\ IF ok
                 THEN /\ dest' = [dest EXCEPT !.mode = Mode0755]
                      /\ Exit(0, "StubWritten")
                 ELSE /\ Rejected
                      /\ UNCHANGED dest
       ELSE /\ ok
            /\ Exit(0, "StubWritten")
            /\ UNCHANGED <<log, dest>>
  /\ UNCHANGED <<launcher, calls, settlement, host, binDirExists, tmpFiles, now, run, net, tmpFile, toolFailed,
                 error, fs0>>

\* The next installer process on the same host and package directory, started
\* after the one before it ended: its Date.now() reads a later time.
NextRun ==
  /\ pc = "exited"
  /\ run < MaxRuns
  /\ now' = now + 1
  /\ run' = run + 1
  /\ pc' = "start"
  /\ exitCode' = -1
  /\ outcome' = ""
  /\ log' = <<>>
  /\ reqUrl' = NoUrl
  /\ hops' = 0
  /\ chunks' = <<>>
  /\ data' = <<>>
  /\ promise' = "pending"
  /\ late' = 0
  /\ tmpFile' = NoTmp
  /\ toolFailed' = FALSE
  /\ error' = NoError
  /\ fs0' = <<dest, binDirExists, tmpFiles>>
  /\ UNCHANGED <<launcher, calls, host, fsys>>

\* The steps of one installer process.
Step ==
  \/ Start
  \/ CheckExisting
  \/ RequestError
  \/ \E r \in Responses(getDownloadUrl(target)) : Response(r.status, r.location)
  \/ BodyData
  \/ BodyEnd
  \/ BodyError
  \/ AwaitDownload
  \/ LogDownloaded
  \/ \E ok \in BOOLEAN : Mkdir(ok)
  \/ \E res \in {"ok", "throws", "partial"} : WriteTmp(res)
  \/ \E ok \in BOOLEAN, wrote \in {"none", "full", "partial"}, mode \in FileModes :
       Exec(ok, wrote, mode)
  \/ \E ok \in BOOLEAN : Unlink(ok)
  \/ \E ok \in BOOLEAN : Chmod(ok)
  \/ \E ok \in BOOLEAN : CatchMkdir(ok)
  \/ \E res \in {"ok", "throws", "partial"}, mode \in FileModes : CatchWrite(res, mode)
  \/ \E ok \in BOOLEAN : CatchChmod(ok)

Next == Step \/ NextRun

Spec == Init /\ [][Next]_vars

\* A started installer process keeps running: every request yields a
\* response or an error, every body ends or errors, every synchronous call
\* returns.  Nothing obliges anyone to start another run.
LiveSpec == Spec /\ WF_vars(Step)

\* ------------------------------------------------------------ launchers
installer == <<dest, binDirExists, tmpFiles, now, run, pc, exitCode, outcome,
               log, reqUrl, hops, chunks, data, promise, late, tmpFile,
               toolFailed, error, fs0>>

\* No installer runs.
InstallerIdle ==
  /\ dest = NoFile
  /\ binDirExists = FALSE
  /\ tmpFiles = {}
  /\ now = 0
  /\ run = 0
  /\ pc = "idle"
  /\ exitCode = -1
  /\ outcome = ""
  /\ log = <<>>
  /\ reqUrl = NoUrl
  /\ hops = 0
  /\ chunks = <<>>
  /\ data = <<>>
  /\ promise = "pending"
  /\ late = 0
  /\ tmpFile = NoTmp
  /\ toolFailed = FALSE
  /\ error = NoError
  /\ fs0 = <<NoFile, FALSE, {}>>

\* A launcher script has been started on some host.
LauncherInit ==
  /\ InstallerIdle
  /\ NoCalls
  /\ platform \in Platforms
  /\ arch \in Archs
  /\ launcherName \in Launchers
  /\ lpc = "start"
  /\ spawned = <<>>
  /\ result = NoResult
  /\ message = <<>>
  /\ launcherExit = -1

\* spawnSync(bin, process.argv.slice(2), { stdio: 'inherit', ... }) returns r.
SpawnSync(r) ==
  /\ lpc = "start"
  /\ spawned' = launcherBin(launcherName, platform)
  /\ result' = r
  /\ lpc' = "spawned"
  /\ UNCHANGED <<launcherName, message, launcherExit>>
  /\ UNCHANGED <<calls, host, installer>>

\* The rest of the script: on result.error the message and process.exit(1),
\* else process.exit(result.status ?? 1).
Report ==
  /\ lpc = "spawned"
  /\ message' = IF result.error # "" THEN errorMessage(launcherName, result) ELSE <<>>
  /\ launcherExit' = exitStatus(result)
  /\ lpc' = "exited"
  /\ UNCHANGED <<launcherName, spawned, result>>
  /\ UNCHANGED <<calls, host, installer>>

LauncherNext ==
  \/ \E r \in SpawnResults : SpawnSync(r)
  \/ Report

LauncherSpec == LauncherInit /\ [][LauncherNext]_vars

\* ------------------------------------------- overlapping extract* calls
process == <<run, pc, exitCode, outcome, log, reqUrl, hops, chunks, data,
             promise, late, tmpFile, toolFailed, error, fs0, tmpFiles>>

\* Two installer processes on one supported host, each about to call
\* extractZip / extractTarGz(data, binDir): binDir exists (mkdirSync has
\* returned in both), nothing is at binPath.
ExtractInit ==
  /\ LauncherIdle
  /\ platform \in Platforms
  /\ arch \in Archs
  /\ <<platform, arch>> \in DOMAIN targets
  /\ dest = NoFile
  /\ binDirExists = TRUE
  /\ tmpFiles = {}
  /\ now = 0
  /\ run = 0
  /\ pc = "idle"
  /\ exitCode = -1
  /\ outcome = ""
  /\ log = <<>>
  /\ reqUrl = NoUrl
  /\ hops = 0
  /\ chunks = <<>>
  /\ data = <<>>
  /\ promise = "pending"
  /\ late = 0
  /\ tmpFile = NoTmp
  /\ toolFailed = FALSE
  /\ error = NoError
  /\ fs0 = <<NoFile, TRUE, {}>>
  /\ callPc = [p \in Invocations |-> "call"]
  /\ callTmp = [p \in Invocations |-> NoTmp]
  /\ callFailed = [p \in Invocations |-> FALSE]
  /\ callDir = {}

\* The millisecond clock moves on.
Tick ==
  /\ now < MaxClock
  /\ now' = now + 1
  /\ UNCHANGED <<launcher, calls, host, dest, binDirExists, process>>

\* The file with this name in the temp directory, if any.
callFile(name) == {f \in callDir : f.name = name}

\* extract* of process p up to the try: the name from Date.now(), then
\* fs.writeFileSync(tmpFile, buffer), which replaces a file of that name.
CallWriteTmp(p, res) ==
  /\ callPc[p] = "call"
  /\ LET name == <<BINARY_NAME, now, archiveOf(target)>>
         written(complete) ==
           {f \in callDir : f.name # name}
             \cup {[name |-> name, complete |-> complete, by |-> p]}
     IN /\ callTmp' = [callTmp EXCEPT ![p] = name]
        /\ callDir' = CASE res = "ok" -> written(TRUE)
                         [] res = "partial" -> written(FALSE)
                         [] OTHER -> callDir
  /\ callPc' = [callPc EXCEPT ![p] = IF res = "ok" THEN "exec" ELSE "threw"]
  /\ UNCHANGED <<launcher, callFailed, host, dest, binDirExists, now, process>>

\* execSync of p's tool on p's tmpFile.  It can exit 0 only when the file is
\* there, and whole.
CallExec(p, ok, wrote, mode) ==
  /\ callPc[p] = "exec"
  /\ ok => \E f \in callFile(callTmp[p]) : f.complete
  /\ wrote \in (IF ok THEN {"none", "full"} ELSE {"none", "partial"})
  /\ (wrote = "none" => mode = Mode0755)
  /\ (wrote = "partial" => mode \in CreatedModes)
  /\ dest' = CASE wrote = "full" -> [content |-> "binary", mode |-> mode]
               [] wrote = "partial" -> [content |-> "partial", mode |-> mode]
               [] OTHER -> dest
  /\ callFailed' = [callFailed EXCEPT ![p] = ~ok]
  /\ callPc' = [callPc EXCEPT ![p] = "unlink"]
  /\ UNCHANGED <<launcher, callTmp, callDir, host, binDirExists, now, process>>

\* p's finally block: fs.unlinkSync(tmpFile) removes whatever file has that
\* name and throws (swallowed) when none has; then extract* returns, or
\* throws the tool's error.
CallUnlink(p, ok) ==
  /\ callPc[p] = "unlink"
  /\ ok => callFile(callTmp[p]) # {}
  /\ callDir' = IF ok THEN callDir \ callFile(callTmp[p]) ELSE callDir
  /\ callFailed' = [callFailed EXCEPT ![p] = FALSE]
  /\ callPc' = [callPc EXCEPT ![p] = IF callFailed[p] THEN "threw" ELSE "returned"]
  /\ UNCHANGED <<launcher, callTmp, host, dest, binDirExists, now, process>>

ExtractNext ==
  \/ Tick
  \/ \E p \in Invocations, res \in {"ok", "throws", "partial"} : CallWriteTmp(p, res)
  \/ \E p \in Invocations, ok \in BOOLEAN, wrote \in {"none", "full", "partial"},
         mode \in FileModes : CallExec(p, ok, wrote, mode)
  \/ \E p \in Invocations, ok \in BOOLEAN : CallUnlink(p, ok)

ExtractSpec == ExtractInit /\ [][ExtractNext]_vars

\* ================================================================ claims
\* What the run's log says.
Supported == target # NoTarget
Fresh == fs0[1] = NoFile
Ended == pc = "exited"
Has(op) == \E i \in DOMAIN log : log[i].op = op
Count(op) == Cardinality({i \in DOMAIN log : log[i].op = op})
\* An fs or execSync call of the try or the catch block with this result.
Did(op, where, res) ==
  \E i \in DOMAIN log : log[i].op = op /\ log[i].arg[1] = where /\ log[i].res = res
Redirects == {i \in DOMAIN log : log[i].op = "response" /\ log[i].res = "redirect"}
\* download resolved: a 200 response's body ended.
Resolved == Has("end")
\* download rejected.
DownloadFailed ==
  \/ Has("requestError")
  \/ Has("responseError")
  \/ \E i \in DOMAIN log :
       log[i].op = "response" /\ log[i].res = "final" /\ log[i].arg[1] # 200
\* The last response was a redirect the handler could not follow: client.get
\* threw inside the listener.
HandlerThrew ==
  /\ log # <<>>
  /\ log[Len(log)].op = "response"
  /\ log[Len(log)].res = "redirect"
ToolOk == Did("execSync", "try", "ok")
\* The tool exited 0 and left the binary at binPath.
Extracted ==
  \E i \in DOMAIN log :
    log[i].op = "execSync" /\ log[i].res = "ok" /\ log[i].arg[4] = "full"
\* A step between the download and the permission fix-up threw.
ExtractionThrew ==
  \/ Did("mkdirSync", "try", "throws")
  \/ Did("writeFileSync", "try", "throws")
  \/ Did("writeFileSync", "try", "partial")
  \/ Did("execSync", "try", "throws")
  \/ Did("chmodSync", "try", "throws")
GuardedFailed == DownloadFailed \/ ExtractionThrew
\* The try block ran to its end.
TryCompleted == ToolOk /\ ~Did("chmodSync", "try", "throws")
StubWriteOk == Did("writeFileSync", "catch", "ok")
StubWriteTried ==
  \E i \in DOMAIN log : log[i].op = "writeFileSync" /\ log[i].arg[1] = "catch"
\* A step of the catch block threw.
FallbackThrew ==
  \/ Did("mkdirSync", "catch", "throws")
  \/ Did("writeFileSync", "catch", "throws")
  \/ Did("writeFileSync", "catch", "partial")
  \/ Did("chmodSync", "catch", "throws")

\* C1 as stated: a run on a supported platform that found no binary ends with
\* exactly one of {successful extraction, stub write} having produced the
\* file at the destination path, whatever steps failed.
C1_ExactlyOneAlways ==
  (Ended /\ Supported /\ Fresh)
    => /\ Extracted # StubWriteOk
       /\ dest # NoFile

\* C1 amended: such a run that exits 0 has done exactly one of {run the try
\* block to its end, written the stub}, and the stub write leaves the stub at
\* the destination path; it exits 1 only when a step of the fallback or the
\* redirect handler threw.
C1_ExactlyOneOnExit0 ==
  (Ended /\ Supported /\ Fresh)
    => /\ exitCode = 0 =>
            /\ TryCompleted # StubWriteOk
            /\ StubWriteOk => dest.content = stub(platform)
            /\ (TryCompleted /\ Extracted) => dest.content = "binary"
       /\ exitCode = 1 => (FallbackThrew \/ HandlerThrew)
       /\ exitCode \in {0, 1}

\* C1 witness: the tool succeeded, chmod threw, the stub replaced the binary.
C1_Witness ==
  Ended /\ Fresh /\ exitCode = 0 /\ Extracted /\ StubWriteOk /\ dest.content = stub(platform)

\* C2 as stated: a failure of a step from the download through the permission
\* fix-up ends in the stub and exit 0; exit 1 occurs only for an unsupported
\* platform or an exception raised outside those steps (in the fallback).
C2_FailureAbsorbed ==
  Ended =>
    /\ exitCode = 1 => (~Supported \/ FallbackThrew)
    /\ (GuardedFailed /\ ~FallbackThrew) =>
          (exitCode = 0 /\ StubWriteOk /\ dest.content = stub(platform))

\* C3 as stated: after a normal return a file is at the destination path,
\* with mode 0755 off Windows when the run installed or wrote the stub; the
\* path is never left empty once acquisition has started.
C3_DestinationPopulated ==
  Ended =>
    /\ outcome \in {"AlreadyInstalled", "Installed", "StubWritten"} => dest # NoFile
    /\ (outcome \in {"Installed", "StubWritten"} /\ platform # "win32")
          => dest.mode = Mode0755
    /\ Has("get") => dest # NoFile

\* C4: with a file at the destination path at the start, the run only checks
\* existence: no request, no write, no mkdir, no chmod, the filesystem as it
\* was, exit 0.
C4_AlreadyInstalledIsNoOp ==
  (Supported /\ ~Fresh) =>
    /\ fsys = fs0
    /\ \A i \in DOMAIN log : log[i].op = "existsSync" /\ log[i].res = "true"
    /\ pc \in {"start", "check", "exited"}
    /\ Ended => (exitCode = 0 /\ outcome = "AlreadyInstalled" /\ Len(log) = 1)

\* C4 witness: a second run finds the stub the first run wrote.
C4_Witness ==
  run = 2 /\ Ended /\ outcome = "AlreadyInstalled" /\ dest.content = stub(platform)

\* The keys and targets the claim C5 documents.
C5_Keys == {"darwin", "linux", "win32"} \X {"x64", "arm64"}
C5_Documented(p, a) ==
  CASE <<p, a>> = <<"darwin", "x64">> -> <<"x86_64", "apple", "darwin">>
    [] <<p, a>> = <<"darwin", "arm64">> -> <<"aarch64", "apple", "darwin">>
    [] <<p, a>> = <<"linux", "x64">> -> <<"x86_64", "unknown", "linux", "gnu">>
    [] <<p, a>> = <<"linux", "arm64">> -> <<"aarch64", "unknown", "linux", "gnu">>
    [] OTHER -> <<>>
C5_WindowsTarget(t) ==
  Len(t) = 4 /\ t[2] = "pc" /\ t[3] = "windows" /\ t[4] = "msvc"
\* What getPlatformTarget did with the host's key, once it has run.
C5_Resolved == pc # "start" /\ outcome # "Unsupported"
C5_Refused == pc = "exited" /\ outcome = "Unsupported" /\ exitCode = 1

\* C5 as stated: all six keys of {darwin, linux, win32} x {x64, arm64}
\* resolve, to the documented targets, and no other key does.
C5_SixKeysResolve ==
  pc # "start" =>
    /\ (<<platform, arch>> \in C5_Keys) <=> C5_Resolved
    /\ (<<platform, arch>> \notin C5_Keys) <=> C5_Refused

\* C5 amended: the five keys darwin-x64, darwin-arm64, linux-x64, linux-arm64
\* and win32-x64 resolve, to the documented targets (win32-x64 to
\* x86_64-pc-windows-msvc); every other key, win32-arm64 included, is refused.
C5_FiveKeysResolve ==
  pc # "start" =>
    LET known == <<platform, arch>> \in (C5_Keys \ {<<"win32", "arm64">>})
    IN /\ known <=> C5_Resolved
       /\ ~known <=> C5_Refused
       /\ (known /\ platform # "win32") => target = C5_Documented(platform, arch)
       /\ (known /\ platform = "win32")
             => (C5_WindowsTarget(target) /\ target[1] = "x86_64")

\* C5 witness: win32-arm64 has been refused.
C5_Witness == platform = "win32" /\ arch = "arm64" /\ C5_Refused

\* C6: on a key without a mapping the process ends with status 1 having made
\* no call at all: no existence check, request, temp file, mkdir or stub
\* write, the filesystem as it was.
C6_UnsupportedExitsBeforeIO ==
  ~Supported =>
    /\ log = <<>>
    /\ fsys = fs0
    /\ pc \in {"start", "exited"}
    /\ Ended => (exitCode = 1 /\ outcome = "Unsupported")

\* C6 witness: an unsupported host's run has ended.
C6_Witness == ~Supported /\ Ended /\ exitCode = 1 /\ log = <<>>

\* The handler has been called with a 200 response.
Got200 ==
  \E i \in DOMAIN log :
    log[i].op = "response" /\ log[i].res = "final" /\ log[i].arg[1] = 200

\* C7: when n redirects have been answered and then a 200, download has
\* issued n + 1 GETs, each follow-up to the Location of the response before
\* it and with the client of its scheme; it resolves once, with the chunks of
\* the last response alone; when the steps after it succeed the run ends
\* Installed.
C7_RedirectsFollowedOnce ==
  /\ \A i \in Redirects :
        i < Len(log) =>
          /\ log[i + 1].op = "get"
          /\ log[i + 1].arg = log[i].arg[2]
          /\ log[i + 1].res = log[i].arg[2].scheme
  /\ Got200 =>
        /\ Count("get") = Cardinality(Redirects) + 1
        /\ Count("response") = Count("get")
        /\ hops = Count("get")
        /\ log[1 + 2 * hops].op = "response" /\ log[1 + 2 * hops].arg[1] = 200
  /\ Resolved =>
        /\ Got200
        /\ \A k \in DOMAIN data : data[k] = <<hops, k>>
        /\ Count("end") = 1
  /\ (Ended /\ Resolved /\ ~ExtractionThrew) => outcome = "Installed"

\* C7 witness: as many redirects as the server may send, both clients used,
\* then a 200 with a body, installed.
C7_Witness ==
  /\ Ended /\ outcome = "Installed"
  /\ Cardinality(Redirects) = MaxRedirects
  /\ Count("get") = MaxRedirects + 1
  /\ data # <<>>
  /\ \E i \in DOMAIN log : log[i].op = "get" /\ log[i].res = "http"

\* C8: a 200, then mkdir, temp-file write, extraction (the tool exits 0 and
\* leaves the binary) and chmod all succeeding: no stub write, the extracted
\* binary at the destination path (mode 0755 off Windows), Installed, exit 0.
C8_SuccessInstalls ==
  (Ended /\ Resolved /\ Extracted /\ ~ExtractionThrew) =>
    /\ ~StubWriteTried
    /\ dest.content = "binary"
    /\ platform # "win32" => dest.mode = Mode0755
    /\ outcome = "Installed"
    /\ exitCode = 0

\* C8 witness: installed off Windows from an archive entry of mode 0644.
C8_Witness ==
  /\ Ended /\ outcome = "Installed" /\ platform = "linux"
  /\ dest = [content |-> "binary", mode |-> Mode0755]
  /\ \E i \in DOMAIN log : log[i].op = "execSync" /\ log[i].arg[4] = "full"

\* The temp files this run created.
C9_Created ==
  {log[i].arg[2] : i \in {j \in DOMAIN log :
      log[j].op = "writeFileSync" /\ log[j].arg[1] = "try"
        /\ log[j].res \in {"ok", "partial"}}}

\* C9 as stated: when the run ends, no temp file it created remains, provided
\* no unlink call failed.
C9_TempFileDeleted ==
  (Ended /\ ~Did("unlinkSync", "try", "throws"))
    => \A n \in C9_Created : \A f \in tmpFiles : f.name # n

\* The states of the specification's diagram, read off the process.
phase ==
  CASE pc = "start" -> "NotStarted"
    [] pc = "check" -> "CheckingExisting"
    [] pc \in {"await", "body", "settled"} -> "Downloading"
    [] pc = "downloaded" -> "Downloaded"
    [] pc \in {"mkdir", "write_tmp", "exec", "unlink", "chmod"} -> "Extracting"
    [] pc \in {"catch", "catch_write", "catch_chmod"} ->
         (IF error.phase = "download" THEN "DownloadFailed" ELSE "ExtractionFailed")
    [] OTHER -> outcome

C10_Diagram ==
  { <<"NotStarted", "CheckingExisting">>,
    <<"CheckingExisting", "AlreadyInstalled">>,
    <<"CheckingExisting", "Downloading">>,
    <<"Downloading", "Downloaded">>,
    <<"Downloading", "DownloadFailed">>,
    <<"Downloaded", "Extracting">>,
    <<"Extracting", "Installed">>,
    <<"Extracting", "ExtractionFailed">>,
    <<"ExtractionFailed", "StubWritten">>,
    <<"DownloadFailed", "StubWritten">> }

\* The exits with status 1, which the diagram lacks.
C10_Aborts ==
  { <<"NotStarted", "Unsupported">>,
    <<"Downloading", "Crashed">>,
    <<"DownloadFailed", "Failed">>,
    <<"ExtractionFailed", "Failed">> }

C10_Follows(edges) ==
  run' = run =>
    /\ phase' = phase \/ <<phase, phase'>> \in edges
    /\ (phase' = "Extracting" /\ phase # "Extracting") => Resolved
    /\ (StubWriteOk' /\ ~StubWriteOk) => phase \in {"DownloadFailed", "ExtractionFailed"}
    /\ phase \in {"AlreadyInstalled", "Installed", "StubWritten"} => phase' = phase

\* C10 as stated: every step of an invocation is an edge of the diagram, so
\* the run can end only in AlreadyInstalled, Installed or StubWritten.
C10_OnlyTheDiagram == [][C10_Follows(C10_Diagram)]_vars

\* C10 amended: every step is an edge of the diagram or one of four exits
\* with status 1: NotStarted -> Unsupported, Downloading -> Crashed (the
\* redirect handler threw), DownloadFailed -> Failed and ExtractionFailed ->
\* Failed (a step of the fallback threw); extraction starts only after
\* download resolved and the stub is written only from a failed state.
C10_DiagramWithAborts == [][C10_Follows(C10_Diagram \cup C10_Aborts)]_vars

\* C10 witness: an extraction failure whose fallback threw.
C10_Witness == Ended /\ phase = "Failed" /\ error.phase = "extraction"

\* The places in the log where download failed: a request error, a response
\* error, or a terminal response other than 200.
C11_Failures ==
  {i \in DOMAIN log :
     \/ log[i].op \in {"requestError", "responseError"}
     \/ log[i].op = "response" /\ log[i].res = "final" /\ log[i].arg[1] # 200}
C11_GetsTo(url) == {i \in DOMAIN log : log[i].op = "get" /\ log[i].arg = url}

\* C11 as stated: at most one GET goes to the constructed release URL in a
\* run; after a request error, a response error or a terminal response other
\* than 200 no GET follows, and the next step is the stub fallback.
C11_OneGetToReleaseUrl ==
  /\ Cardinality(C11_GetsTo(getDownloadUrl(target))) <= 1
  /\ \A i \in C11_Failures :
        /\ \A j \in DOMAIN log : j > i => log[j].op # "get"
        /\ i < Len(log) => (log[i + 1].op = "mkdirSync" /\ log[i + 1].arg = <<"catch">>)

\* C11 amended: download issues one GET of its own, the first, to the
\* constructed release URL; every other GET of the run follows a 3xx response
\* and goes to its Location (the release URL again when the server redirects
\* to it); after a request error, a response error or a terminal response
\* other than 200 no GET follows, and the next step is the stub fallback.
C11_NoRetry ==
  /\ \A i \in DOMAIN log :
        log[i].op = "get" =>
          \/ i = 2 /\ log[i].arg = getDownloadUrl(target) /\ log[1].op = "existsSync"
          \/ /\ i > 2
             /\ log[i - 1].op = "response" /\ log[i - 1].res = "redirect"
             /\ log[i - 1].arg[2] = log[i].arg
  /\ \A i \in C11_Failures :
        /\ i = Len(log) => pc \in {"settled", "catch"}
        /\ Cardinality(C11_Failures) = 1
        /\ \A j \in DOMAIN log : j > i => log[j].op # "get"
        /\ i < Len(log) => (log[i + 1].op = "mkdirSync" /\ log[i + 1].arg = <<"catch">>)

\* C11 witness: redirected back to the release URL, asked again, the request
\* failed, the stub was written.
C11_Witness ==
  /\ Ended /\ outcome = "StubWritten"
  /\ Cardinality(C11_GetsTo(getDownloadUrl(target))) = 2
  /\ Has("requestError")

\* C12: the launcher ends with the child's status when the child produced
\* one, with 1 when it produced none (a signal ended it), with 1 when the
\* launch failed (a missing binary or any other error); it ends with 0 only
\* when the child exited 0.
C12_LauncherReportsChildStatus ==
  lpc = "exited" =>
    /\ (result.error = "" /\ result.status # NoStatus) => launcherExit = result.status
    /\ (result.error = "" /\ result.status = NoStatus) => launcherExit = 1
    /\ result.error # "" => launcherExit = 1
    /\ launcherExit = 0 => (result.error = "" /\ result.status = 0)
    /\ (result.error = "ENOENT") <=>
          message = <<launcherName, "binary not found. Try reinstalling: npm install -g",
                      launcherName>>
    /\ spawned = launcherBin(launcherName, platform)

\* C12 witness: a child ended by a signal, reported as status 1.
C12_Witness ==
  lpc = "exited" /\ result.signal = "SIGKILL" /\ launcherExit = 1 /\ message = <<>>

\* The terminal responses of the run whose status is not 200 (a 3xx without
\* a Location header among them).
C13_NonOk ==
  {i \in DOMAIN log :
     log[i].op = "response" /\ log[i].res = "final" /\ log[i].arg[1] # 200}
\* What C13 says of such a response, up to where the run ends.
C13_Rejected(i) ==
  /\ error = [kind |-> "status", code |-> log[i].arg[1], phase |-> "download"]
  /\ chunks = <<>> /\ data = <<>>
  /\ ~Has("execSync")
  /\ ~Did("writeFileSync", "try", "ok") /\ ~Did("writeFileSync", "try", "partial")
  /\ ~Did("writeFileSync", "try", "throws")
  /\ tmpFiles = fs0[3] /\ tmpFile = NoTmp
  /\ phase \in {"Downloading", "DownloadFailed", "StubWritten", "Failed"}

\* C13 as stated: a terminal response other than 200 makes download fail
\* with an error carrying its status; no body is buffered, no extraction
\* tool runs, no temp file is created, and the run ends in StubWritten.
C13_NonOkEndsInStub ==
  \A i \in C13_NonOk :
    /\ C13_Rejected(i)
    /\ Ended => outcome = "StubWritten"

\* C13 amended: ... and the run goes to the stub fallback: it ends in
\* StubWritten unless a step of the fallback (mkdir, stub write, chmod)
\* throws, and then with status 1.
C13_NonOkGoesToFallback ==
  \A i \in C13_NonOk :
    /\ C13_Rejected(i)
    /\ Ended =>
          \/ outcome = "StubWritten" /\ exitCode = 0 /\ ~FallbackThrew
                /\ dest.content = stub(platform)
          \/ outcome = "Failed" /\ exitCode = 1 /\ FallbackThrew

\* C13 witness: a redirect, then a 3xx without a Location header; the stub
\* was written.
C13_Witness ==
  /\ Ended /\ outcome = "StubWritten"
  /\ Cardinality(Redirects) = 1
  /\ error = [kind |-> "status", code |-> 302, phase |-> "download"]

\* The last part of a URL or a temp file name: its extension.
C14_Ext(name) == name[Len(name)]

\* C14: on a target that denotes windows the URL ends in zip, the tool is
\* unzip and no chmod is made; on any other supported target the URL ends in
\* tar.gz, the tool is tar and the try block's chmod 0755 follows a
\* successful extraction.  The target denotes windows exactly on win32, so one
\* tool runs per extraction and it matches the archive asked for.
C14_ArchiveMatchesTool ==
  Supported =>
    LET win == includes(target, "windows")
        ext == IF win THEN "zip" ELSE "tar.gz"
    IN /\ win <=> platform = "win32"
       /\ C14_Ext(getDownloadUrl(target).rest) = ext
       /\ \A i \in DOMAIN log :
             /\ (log[i].op = "get" /\ i = 2) => C14_Ext(log[i].arg.rest) = ext
             /\ (log[i].op = "writeFileSync" /\ log[i].arg[1] = "try")
                   => C14_Ext(log[i].arg[2]) = ext
             /\ log[i].op = "execSync" =>
                   /\ log[i].arg[2] = (IF win THEN "unzip" ELSE "tar")
                   /\ C14_Ext(log[i].arg[3]) = ext
             /\ log[i].op = "chmodSync" => ~win
       /\ Count("execSync") <= 1
       /\ Did("writeFileSync", "try", "ok") =>
             (pc = "exec" \/ Count("execSync") = 1)
       /\ (~win /\ outcome = "Installed") =>
             (Did("chmodSync", "try", "ok") /\ dest.mode = Mode0755)
       /\ (~win /\ ToolOk /\ Ended) => Count("chmodSync") >= 1

\* C14 witness: installed on win32 with unzip from the zip, without a chmod.
C14_Witness ==
  /\ Ended /\ platform = "win32" /\ outcome = "Installed"
  /\ Count("chmodSync") = 0
  /\ \E i \in DOMAIN log :
        log[i].op = "execSync" /\ log[i].arg[2] = "unzip"
          /\ C14_Ext(log[i].arg[3]) = "zip"

\* C15: whether or not the delete of the temp file fails, after a tool that
\* exited 0 the run goes on to the permission fix-up and, that succeeding,
\* ends Installed; after a tool that failed, the error the fallback receives
\* is the tool's.
C15_UnlinkFailureIgnored ==
  \A i \in DOMAIN log :
    log[i].op = "unlinkSync" =>
      /\ log[i - 1].op = "execSync"
      /\ log[i - 1].res = "ok" =>
            /\ i = Len(log) =>
                  (pc = "chmod" \/ (platform = "win32" /\ outcome = "Installed"))
            /\ i < Len(log) =>
                  (log[i + 1].op = "chmodSync" /\ log[i + 1].arg = <<"try">>)
            /\ (Ended /\ ~Did("chmodSync", "try", "throws")) =>
                  (outcome = "Installed" /\ exitCode = 0)
            /\ error.kind \in {"", "chmod"}
      /\ log[i - 1].res = "throws" =>
            /\ error = [kind |-> "tool", code |-> 0, phase |-> "extraction"]
            /\ i = Len(log) => pc = "catch"
            /\ i < Len(log) =>
                  (log[i + 1].op = "mkdirSync" /\ log[i + 1].arg = <<"catch">>)

\* C15 witness: the delete failed, the archive stayed behind, the run ended
\* Installed.
C15_Witness ==
  /\ Ended /\ outcome = "Installed"
  /\ Did("unlinkSync", "try", "throws")
  /\ \E f \in tmpFiles : f.name = tmpFile

\* Every response of the run so far was a 3xx with a Location header, and no
\* request failed.
C16_OnlyRedirects ==
  /\ Has("response")
  /\ \A i \in DOMAIN log :
        /\ log[i].op = "response" => log[i].res = "redirect"
        /\ log[i].op # "requestError"

\* C16, first part: with requests, bodies and tools that all come back and a
\* redirect chain that ends, every installer process reaches a terminal
\* outcome.
C16_Terminates ==
  \A r \in 1..MaxRuns :
    (run = r) ~>
      (run = r /\ pc = "exited"
         /\ outcome \in {"AlreadyInstalled", "Installed", "StubWritten",
                          "Unsupported", "Failed", "Crashed"})

\* C16, second part, as stated: while the server has answered every GET with
\* a 3xx carrying a Location header, the installer has reached no terminal
\* outcome.
C16_EndlessRedirectsNeverEnd ==
  C16_OnlyRedirects => (~Ended /\ pc = "await")

\* Process p has written its temp file and not yet deleted it.
C17_InUse(p) == callPc[p] \in {"exec", "unlink"}

\* C17 as stated: two invocations that overlap in time never use the same
\* temp file path, whatever the clock reads; until a process deletes its
\* temp file it is there, holding the archive that process wrote.
C17_TempNamesUnique ==
  \A p \in Invocations :
    C17_InUse(p) =>
      /\ \A q \in Invocations \ {p} : C17_InUse(q) => callTmp[q] # callTmp[p]
      /\ \E f \in callFile(callTmp[p]) : f.by = p

\* An earlier run left the stub (whole, or cut short by a failing write) at
\* the destination path: only the stub write produces such a file.
C18_StubWasWritten ==
  run > 1 /\ fs0[1] # NoFile /\ fs0[1].content \in {stub(platform), "stub-partial"}

\* C18: in every run after one that wrote the stub, the only call is the
\* existence check: no request, the file at the destination path as that
\* run left it, exit 0 as AlreadyInstalled.
C18_StubIsSticky ==
  C18_StubWasWritten =>
    /\ dest = fs0[1]
    /\ \A i \in DOMAIN log : log[i].op = "existsSync" /\ log[i].res = "true"
    /\ ~Has("get")
    /\ pc \in {"start", "check", "exited"}
    /\ Ended => (outcome = "AlreadyInstalled" /\ exitCode = 0)

\* C18 witness: the first run wrote the stub and its chmod threw (exit 1);
\* the second run found the stub, mode 0644, and left it.
C18_Witness ==
  /\ run = 2 /\ Ended /\ outcome = "AlreadyInstalled"
  /\ platform = "linux"
  /\ dest = [content |-> stub(platform), mode |-> 420]

\* The calls of the run that write to the destination path or change its
\* mode: the extraction tool, the stub write, either chmod.
C19_WritesToDest ==
  {i \in DOMAIN log :
     \/ log[i].op \in {"execSync", "chmodSync"}
     \/ log[i].op = "writeFileSync" /\ log[i].arg[1] = "catch"}

\* C19: a file that was at the destination path when the run started is
\* there unchanged, content and mode, throughout the run; the tool, the stub
\* write and the chmods run only after an existence check that found nothing.
C19_ExistingFileUntouched ==
  /\ fs0[1] # NoFile => (dest = fs0[1] /\ C19_WritesToDest = {})
  /\ dest # fs0[1] => C19_WritesToDest # {}
  /\ C19_WritesToDest # {} =>
        /\ fs0[1] = NoFile
        /\ log[1] = Ev("existsSync", "false", binName(platform))
        /\ \A i \in C19_WritesToDest : i > 1

\* C19 witness: a file of mode 0644 found by the first run, left as it was.
C19_Witness ==
  /\ run = 1 /\ Ended /\ Supported
  /\ fs0[1] = [content |-> "existing", mode |-> 420]
  /\ dest = fs0[1]
  /\ log = <<Ev("existsSync", "true", binName(platform))>>

\* What C20 says of one step of a run.
C20_Step ==
  run' = run =>
    /\ promise # "pending" => (promise' = promise /\ data' = data)
    /\ (promise = "rejected" /\ pc = "settled") => error' = error
    /\ (pc = "settled" /\ pc' # "settled") =>
          IF promise = "resolved"
            THEN pc' = "downloaded"
            ELSE pc' = "catch" /\ error'.phase = "download"
    /\ pc' = "downloaded" => (Resolved' /\ data' = chunks')
    /\ pc' \in {"downloaded", "mkdir", "write_tmp", "exec", "unlink", "chmod"}
          => (promise' = "resolved" /\ Resolved' /\ ~DownloadFailed')
    /\ (pc' = "catch" /\ pc = "settled") => promise' = "rejected"

\* C20: download's promise settles once, with the first outcome: resolved
\* with the whole body, no later error event makes the run fail; rejected,
\* no later 'data' or 'end' event starts the extraction; install goes on to
\* the extraction only with the body as it was at 'end'.
C20_SettlesOnce == [][C20_Step]_vars

\* C20 witness: an error event was delivered after the promise resolved with
\* a body; the promise is still resolved.
C20_Witness ==
  pc = "settled" /\ promise = "resolved" /\ late >= 1 /\ data # <<>> /\ error = NoError

====
